---------------------------- MODULE Spec2Model ----------------------------
(***************************************************************************)
(* A model of the pseudonymization service of pseudonymization-lgpd-tools  *)
(* (package pseudonymization: NewService, Pseudonymize, Revert, Hash,      *)
(* encrypt, decrypt).                                                      *)
(*                                                                         *)
(* Go strings and byte slices are sequences of bytes (0..255); a text such *)
(* as a base64 or hex string is the sequence of its character codes.       *)
(* encoding/base64, encoding/hex and the uuid formatting are modelled as   *)
(* they compute.  crypto/sha256 and AES-GCM are library code outside the   *)
(* repository: they are modelled by stand-ins with the library's interface *)
(* and sizes (32-byte digest, key sizes 16/24/32, 12-byte nonce, 16-byte   *)
(* tag, output nonce || body || tag) and with the facts the constructions  *)
(* guarantee: the digest is a function of the input bytes alone, Open      *)
(* inverts Seal under the same key, nonce and associated data, and the     *)
(* expected tag changes with any change of the nonce, the body, the        *)
(* associated data or the key.                                             *)
(***************************************************************************)
EXTENDS Integers, Sequences, FiniteSets, TLC

(***************************************************************************)
(* Bytes and small helpers                                                 *)
(***************************************************************************)
Byte == 0..255

RECURSIVE XorBits(_, _, _)
XorBits(a, b, n) ==
    IF n = 0 THEN 0
    ELSE ((a + b) % 2) + 2 * XorBits(a \div 2, b \div 2, n - 1)

\* a ^ b on bytes
Xor(a, b) == XorBits(a, b, 8)

RECURSIVE AndBits(_, _, _)
AndBits(a, b, n) ==
    IF n = 0 THEN 0
    ELSE ((a % 2) * (b % 2)) + 2 * AndBits(a \div 2, b \div 2, n - 1)

\* (b & mask) | bits, for disjoint mask and bits
MaskOr(b, mask, bits) == AndBits(b, mask, 8) + bits

\* the sequence with elements f[1] .. f[n]
Bytes(f, n) == SubSeq(f, 1, n)

\* make([]byte, n)
Zeros(n) == Bytes([i \in 1..n |-> 0], n)

\* s[:n] and s[n:] of Go, n in 0..len(s)
Take(s, n) == SubSeq(s, 1, n)
Drop(s, n) == SubSeq(s, n + 1, Len(s))

\* sum of w(i) * s[i]
RECURSIVE WeightedSum(_, _, _)
WeightedSum(s, i, step) ==
    IF i > Len(s) THEN 0
    ELSE s[i] * (2 * (i * step) + 1) + WeightedSum(s, i + 1, step)

(***************************************************************************)
(* Errors.  A Go error is the chain of its layers, outermost first         *)
(* (fmt.Errorf("...: %w", err) puts a layer in front); <<>> is nil.  A     *)
(* layer is its message and, for the errors that carry a number            *)
(* (aes.KeySizeError, base64.CorruptInputError), that number; -1 if none.  *)
(***************************************************************************)
\* errors.New(msg)
NewError(msg) == <<[msg |-> msg, arg |-> -1]>>

\* an error type over an int: KeySizeError(n), CorruptInputError(n)
IntError(msg, n) == <<[msg |-> msg, arg |-> n]>>

\* fmt.Errorf(msg + ": %w", err)
Wrap(msg, err) == NewError(msg) \o err

\* err.Error()
RECURSIVE ErrorString(_)
ErrorString(err) ==
    IF Len(err) = 0 THEN ""
    ELSE (err[1].msg \o (IF err[1].arg >= 0 THEN " " \o ToString(err[1].arg) ELSE ""))
         \o (IF Len(err) = 1 THEN "" ELSE ": " \o ErrorString(Tail(err)))

(***************************************************************************)
(* encoding/hex                                                            *)
(***************************************************************************)
\* "0123456789abcdef"
HexDigit(n) == IF n < 10 THEN 48 + n ELSE 87 + n

\* hex.EncodeToString
RECURSIVE HexEncodeToString(_)
HexEncodeToString(bs) ==
    IF bs = <<>> THEN <<>>
    ELSE <<HexDigit(bs[1] \div 16), HexDigit(bs[1] % 16)>> \o HexEncodeToString(Tail(bs))

(***************************************************************************)
(* encoding/base64, StdEncoding (padded, not strict)                       *)
(***************************************************************************)
PadChar == 61
LF == 10
CR == 13

\* the alphabet A-Z a-z 0-9 + /
B64Char(n) ==
    IF n < 26 THEN 65 + n
    ELSE IF n < 52 THEN 71 + n
    ELSE IF n < 62 THEN n - 4
    ELSE IF n = 62 THEN 43 ELSE 47

\* decodeMap: the 6-bit value of a character, -1 for 0xff
B64Value(c) ==
    IF c >= 65 /\ c <= 90 THEN c - 65
    ELSE IF c >= 97 /\ c <= 122 THEN c - 71
    ELSE IF c >= 48 /\ c <= 57 THEN c + 4
    ELSE IF c = 43 THEN 62
    ELSE IF c = 47 THEN 63 ELSE -1

RECURSIVE B64Encode(_)
B64Encode(bs) ==
    IF Len(bs) = 0 THEN <<>>
    ELSE IF Len(bs) = 1 THEN
        <<B64Char(bs[1] \div 4), B64Char((bs[1] % 4) * 16), PadChar, PadChar>>
    ELSE IF Len(bs) = 2 THEN
        <<B64Char(bs[1] \div 4),
          B64Char((bs[1] % 4) * 16 + bs[2] \div 16),
          B64Char((bs[2] % 16) * 4), PadChar>>
    ELSE
        <<B64Char(bs[1] \div 4),
          B64Char((bs[1] % 4) * 16 + bs[2] \div 16),
          B64Char((bs[2] % 16) * 4 + bs[3] \div 64),
          B64Char(bs[3] % 64)>> \o B64Encode(Drop(bs, 3))

\* The bytes of a quantum of dlen 6-bit values (dlen - 1 bytes).
QuantumBytes(dbuf, dlen) ==
    LET d == [i \in 1..4 |-> IF i <= Len(dbuf) THEN dbuf[i] ELSE 0]
        val == d[1] * 262144 + d[2] * 4096 + d[3] * 64 + d[4]
        b == <<val \div 65536, (val \div 256) % 256, val % 256>>
    IN  Take(b, dlen - 1)

RECURSIVE SkipNewlines(_, _)
SkipNewlines(src, si) ==
    IF si < Len(src) /\ src[si + 1] \in {LF, CR} THEN SkipNewlines(src, si + 1)
    ELSE si

\* decodeQuantum: si is the 0-based read offset, dbuf the values read so far.
\* Returns the new offset, the bytes and the CorruptInputError offset (-1: nil).
RECURSIVE DecodeQuantum(_, _, _)
DecodeQuantum(src, si, dbuf) ==
    LET j == Len(dbuf) IN
    IF j = 4 THEN [si |-> si, out |-> QuantumBytes(dbuf, 4), err |-> -1]
    ELSE IF si = Len(src) THEN
        IF j = 0 THEN [si |-> si, out |-> <<>>, err |-> -1]
        ELSE [si |-> si, out |-> <<>>, err |-> si - j]
    ELSE
        LET in == src[si + 1] IN
        IF B64Value(in) >= 0 THEN DecodeQuantum(src, si + 1, Append(dbuf, B64Value(in)))
        ELSE IF in \in {LF, CR} THEN DecodeQuantum(src, si + 1, dbuf)
        ELSE IF in # PadChar THEN [si |-> si + 1, out |-> <<>>, err |-> si]
        ELSE IF j < 2 THEN [si |-> si + 1, out |-> <<>>, err |-> si]
        ELSE
            LET s2 == IF j = 2 THEN SkipNewlines(src, si + 1) ELSE si + 1
                bad2 == j = 2 /\ (s2 = Len(src) \/ src[s2 + 1] # PadChar)
                s3 == SkipNewlines(src, IF j = 2 THEN s2 + 1 ELSE s2)
            IN  IF bad2 THEN
                    [si |-> s2, out |-> <<>>,
                     err |-> IF s2 = Len(src) THEN Len(src) ELSE s2 - 1]
                ELSE
                    [si |-> s3, out |-> QuantumBytes(dbuf, j),
                     err |-> IF s3 < Len(src) THEN s3 ELSE -1]

\* Decode's loop over the quanta, from offset si: the step after a quantum q
RECURSIVE B64DecodeFrom(_, _)
B64AfterRest(q, rest) ==
    IF rest.err >= 0 THEN rest ELSE [out |-> q.out \o rest.out, err |-> -1]

B64AfterQuantum(src, si, q) ==
    IF q.err >= 0 THEN [out |-> <<>>, err |-> q.err]
    ELSE IF q.si = si THEN [out |-> q.out, err |-> -1]
    ELSE B64AfterRest(q, B64DecodeFrom(src, q.si))

B64DecodeFrom(src, si) ==
    IF si >= Len(src) THEN [out |-> <<>>, err |-> -1]
    ELSE B64AfterQuantum(src, si, DecodeQuantum(src, si, <<>>))

\* the answer of DecodeString: the bytes, and nil or CorruptInputError(offset)
B64Result(r) ==
    IF r.err >= 0
    THEN [out |-> <<>>, err |-> IntError("illegal base64 data at input byte", r.err)]
    ELSE [out |-> r.out, err |-> <<>>]

\* base64.StdEncoding.DecodeString
B64DecodeString(s) == B64Result(B64DecodeFrom(s, 0))

(***************************************************************************)
(* crypto/sha256 (stand-in): a 32-byte digest computed from the input      *)
(* bytes and nothing else.  Collision resistance is not modelled.          *)
(***************************************************************************)
Sha256Size == 32

RECURSIVE Absorb(_, _, _)
Absorb(acc, bs, i) ==
    IF i > Len(bs) THEN acc
    ELSE Absorb((acc * 31 + bs[i] + 1) % 65521, bs, i + 1)

\* sha256.Sum256
Sha256Sum256(bs) ==
    LET acc == Absorb(7, bs, 1) IN
    Bytes([j \in 1..Sha256Size |->
              IF j = 1 THEN acc \div 256
              ELSE IF j = 2 THEN acc % 256
              ELSE (acc * (2 * j + 1) + j) % 256], Sha256Size)

(***************************************************************************)
(* crypto/aes and crypto/cipher GCM (stand-in)                             *)
(***************************************************************************)
\* gcm.NonceSize() and gcm.Overhead() of the standard GCM
NonceSize == 12
TagSize == 16

\* the key sizes of AES-128, AES-192 and AES-256
AesKeySizes == {16, 24, 32}

\* aes.NewCipher: nil, or KeySizeError
AesNewCipher(key) ==
    IF Len(key) \in AesKeySizes THEN <<>>
    ELSE IntError("crypto/aes: invalid key size", Len(key))

\* what the cipher derives from the key (length included)
KeyMix(key) == Absorb(5381 + Len(key), key, 1)

\* counter-mode keystream byte i for (key, nonce)
GcmKeystream(mix, i) == (mix + 17 * i) % 256

GcmXorKeystream(key, nonce, bs) ==
    LET mix == KeyMix(key) + WeightedSum(nonce, 1, 1) IN
    Bytes([i \in 1..Len(bs) |-> Xor(bs[i], GcmKeystream(mix, i))], Len(bs))

\* The tag over (nonce, additional data, body) under key.  Every weight is
\* odd, so a change of one byte of the nonce or the body changes every tag
\* byte; bytes 1 and 2 carry KeyMix(key).
GcmTag(key, nonce, aad, body) ==
    LET k == KeyMix(key) IN
    Bytes([j \in 1..TagSize |->
              ((IF j = 1 THEN k \div 256 ELSE IF j = 2 THEN k % 256 ELSE k * j)
               + WeightedSum(nonce, 1, j) + WeightedSum(body, 1, j + 1)
               + WeightedSum(aad, 1, j + 2) + 131 * Len(aad) + 29 * Len(body)) % 256],
          TagSize)

\* errOpen of crypto/cipher
ErrOpen == NewError("cipher: message authentication failed")

\* gcm.Seal(dst, nonce, plaintext, additionalData): dst || body || tag
GcmSeal(key, dst, nonce, plaintext, aad) ==
    LET body == GcmXorKeystream(key, nonce, plaintext)
    IN  dst \o body \o GcmTag(key, nonce, aad, body)

\* gcm.Open(nil, nonce, ciphertext, additionalData)
GcmOpen(key, nonce, ciphertext, aad) ==
    IF Len(ciphertext) < TagSize THEN [out |-> <<>>, err |-> ErrOpen]
    ELSE
        LET body == Take(ciphertext, Len(ciphertext) - TagSize)
            tag == Drop(ciphertext, Len(ciphertext) - TagSize)
        IN  IF tag # GcmTag(key, nonce, aad, body)
            THEN [out |-> <<>>, err |-> ErrOpen]
            ELSE [out |-> GcmXorKeystream(key, nonce, body), err |-> <<>>]

(***************************************************************************)
(* github.com/google/uuid                                                  *)
(***************************************************************************)
\* uuid.New(): 16 random bytes with the version (4) and variant bits set
UuidNew(rb) ==
    Bytes([i \in 1..16 |->
              IF i = 7 THEN MaskOr(rb[i], 15, 64)
              ELSE IF i = 9 THEN MaskOr(rb[i], 63, 128)
              ELSE rb[i]], 16)

\* UUID.String(): xxxxxxxx-xxxx-xxxx-xxxx-xxxxxxxxxxxx
UuidString(u) ==
    HexEncodeToString(SubSeq(u, 1, 4)) \o <<45>> \o
    HexEncodeToString(SubSeq(u, 5, 6)) \o <<45>> \o
    HexEncodeToString(SubSeq(u, 7, 8)) \o <<45>> \o
    HexEncodeToString(SubSeq(u, 9, 10)) \o <<45>> \o
    HexEncodeToString(SubSeq(u, 11, 16))

(***************************************************************************)
(* The service.  A *Result is <<>> (nil) or <<r>>.  s is the service with  *)
(* the contents its key buffer has when the call runs.  rnd is what        *)
(* rand.Read gives (bytes, err), id the 16 random bytes of uuid.New, now   *)
(* what time.Now().Unix() gives.  trace lists the library calls made, in   *)
(* order.                                                                  *)
(***************************************************************************)
\* encrypt with gcm.Seal(nil, nonce, ...): the nonce is not put in front
encryptNoNoncePrefix(s, plaintext, rnd) ==
    LET blockErr == AesNewCipher(s.encryptionKey) IN
    IF blockErr # <<>> THEN
        [out |-> <<>>, err |-> blockErr, trace |-> <<"aes.NewCipher">>]
    ELSE IF rnd.err # <<>> THEN
        [out |-> <<>>, err |-> rnd.err,
         trace |-> <<"aes.NewCipher", "cipher.NewGCM", "rand.Read">>]
    ELSE
        [out |-> B64Encode(GcmSeal(s.encryptionKey, <<>>, rnd.bytes, plaintext, <<>>)),
         err |-> <<>>,
         trace |-> <<"aes.NewCipher", "cipher.NewGCM", "rand.Read",
                     "gcm.Seal", "base64.EncodeToString">>]

\* encrypt that never fills the nonce: it stays as make left it
encryptFixedNonce(s, plaintext, rnd) ==
    LET blockErr == AesNewCipher(s.encryptionKey) IN
    IF blockErr # <<>> THEN
        [out |-> <<>>, err |-> blockErr, trace |-> <<"aes.NewCipher">>]
    ELSE IF rnd.err # <<>> THEN
        [out |-> <<>>, err |-> rnd.err,
         trace |-> <<"aes.NewCipher", "cipher.NewGCM", "rand.Read">>]
    ELSE
        [out |-> B64Encode(GcmSeal(s.encryptionKey, Zeros(NonceSize), Zeros(NonceSize),
                                   plaintext, <<>>)),
         err |-> <<>>,
         trace |-> <<"aes.NewCipher", "cipher.NewGCM", "rand.Read",
                     "gcm.Seal", "base64.EncodeToString">>]

\* Service.encrypt
encrypt(s, plaintext, rnd) ==
    LET blockErr == AesNewCipher(s.encryptionKey) IN
    IF blockErr # <<>> THEN
        [out |-> <<>>, err |-> blockErr, trace |-> <<"aes.NewCipher">>]
    ELSE IF rnd.err # <<>> THEN
        [out |-> <<>>, err |-> rnd.err,
         trace |-> <<"aes.NewCipher", "cipher.NewGCM", "rand.Read">>]
    ELSE
        LET nonce == rnd.bytes
            ciphertext == GcmSeal(s.encryptionKey, nonce, nonce, plaintext, <<>>)
        IN  [out |-> B64Encode(ciphertext), err |-> <<>>,
             trace |-> <<"aes.NewCipher", "cipher.NewGCM", "rand.Read",
                         "gcm.Seal", "base64.EncodeToString">>]

\* decryptData with the error of gcm.Open dropped
decryptDataUnchecked(s, data) ==
    LET blockErr == AesNewCipher(s.encryptionKey) IN
    IF blockErr # <<>> THEN
        [out |-> <<>>, err |-> blockErr,
         trace |-> <<"base64.DecodeString", "aes.NewCipher">>]
    ELSE IF Len(data) < NonceSize THEN
        [out |-> <<>>, err |-> NewError("ciphertext too short"),
         trace |-> <<"base64.DecodeString", "aes.NewCipher", "cipher.NewGCM">>]
    ELSE
        [out |-> GcmOpen(s.encryptionKey, Take(data, NonceSize),
                         Drop(data, NonceSize), <<>>).out,
         err |-> <<>>,
         trace |-> <<"base64.DecodeString", "aes.NewCipher", "cipher.NewGCM", "gcm.Open">>]

\* decryptData that asks for room for the tag too before it calls gcm.Open
decryptDataMinLenWithTag(s, data) ==
    LET blockErr == AesNewCipher(s.encryptionKey) IN
    IF blockErr # <<>> THEN
        [out |-> <<>>, err |-> blockErr,
         trace |-> <<"base64.DecodeString", "aes.NewCipher">>]
    ELSE IF Len(data) < NonceSize + TagSize THEN
        [out |-> <<>>, err |-> NewError("ciphertext too short"),
         trace |-> <<"base64.DecodeString", "aes.NewCipher", "cipher.NewGCM">>]
    ELSE
        [trace |-> <<"base64.DecodeString", "aes.NewCipher", "cipher.NewGCM", "gcm.Open">>]
        @@ GcmOpen(s.encryptionKey, Take(data, NonceSize), Drop(data, NonceSize), <<>>)

\* decryptData naming the size of the key in the error of a failed gcm.Open
decryptDataKeySizeInError(s, data) ==
    LET blockErr == AesNewCipher(s.encryptionKey) IN
    IF blockErr # <<>> THEN
        [out |-> <<>>, err |-> blockErr,
         trace |-> <<"base64.DecodeString", "aes.NewCipher">>]
    ELSE IF Len(data) < NonceSize THEN
        [out |-> <<>>, err |-> NewError("ciphertext too short"),
         trace |-> <<"base64.DecodeString", "aes.NewCipher", "cipher.NewGCM">>]
    ELSE
        LET opened == GcmOpen(s.encryptionKey, Take(data, NonceSize),
                              Drop(data, NonceSize), <<>>)
        IN  [out |-> opened.out,
             err |-> IF opened.err = <<>> THEN <<>>
                     ELSE IntError("open with key of size", Len(s.encryptionKey))
                          \o opened.err,
             trace |-> <<"base64.DecodeString", "aes.NewCipher", "cipher.NewGCM",
                         "gcm.Open">>]

\* decryptData checking the length of the data before it sets the cipher up
decryptDataLengthFirst(s, data) ==
    IF Len(data) < NonceSize THEN
        [out |-> <<>>, err |-> NewError("ciphertext too short"),
         trace |-> <<"base64.DecodeString">>]
    ELSE IF AesNewCipher(s.encryptionKey) # <<>> THEN
        [out |-> <<>>, err |-> AesNewCipher(s.encryptionKey),
         trace |-> <<"base64.DecodeString", "aes.NewCipher">>]
    ELSE
        [trace |-> <<"base64.DecodeString", "aes.NewCipher", "cipher.NewGCM", "gcm.Open">>]
        @@ GcmOpen(s.encryptionKey, Take(data, NonceSize), Drop(data, NonceSize), <<>>)

\* Service.decrypt, lines 127-148: after the text decoded to data
decryptData(s, data) ==
    LET blockErr == AesNewCipher(s.encryptionKey) IN
    IF blockErr # <<>> THEN
        [out |-> <<>>, err |-> blockErr,
         trace |-> <<"base64.DecodeString", "aes.NewCipher">>]
    ELSE IF Len(data) < NonceSize THEN
        [out |-> <<>>, err |-> NewError("ciphertext too short"),
         trace |-> <<"base64.DecodeString", "aes.NewCipher", "cipher.NewGCM">>]
    ELSE
        [trace |-> <<"base64.DecodeString", "aes.NewCipher", "cipher.NewGCM", "gcm.Open">>]
        @@ GcmOpen(s.encryptionKey, Take(data, NonceSize), Drop(data, NonceSize), <<>>)

\* Service.decrypt, lines 122-125: what follows base64's answer
decryptDecoded(s, dec) ==
    IF dec.err # <<>> THEN
        [out |-> <<>>, err |-> dec.err, trace |-> <<"base64.DecodeString">>]
    ELSE decryptData(s, dec.out)

\* decrypt that sets the cipher up before it decodes the text
decryptCipherFirst(s, ciphertext) ==
    IF AesNewCipher(s.encryptionKey) # <<>> THEN
        [out |-> <<>>, err |-> AesNewCipher(s.encryptionKey), trace |-> <<"aes.NewCipher">>]
    ELSE decryptDecoded(s, B64DecodeString(ciphertext))

\* Service.decrypt
decrypt(s, ciphertext) == decryptDecoded(s, B64DecodeString(ciphertext))

\* Service.Hash
Hash(s, value) == HexEncodeToString(Sha256Sum256(value))

\* Pseudonymize hashing the encrypted value instead of the value
PseudonymizeHashOfEncrypted(value, enc, id, now) ==
    IF enc.err # <<>> THEN
        [res |-> <<>>, err |-> Wrap("encryption failed", enc.err),
         trace |-> <<"sha256.Sum256">> \o enc.trace]
    ELSE
        [res |-> <<[OriginalHash |-> HexEncodeToString(Sha256Sum256(enc.out)),
                    Pseudonym |-> UuidString(UuidNew(id)),
                    EncryptedValue |-> enc.out,
                    Timestamp |-> now]>>,
         err |-> <<>>,
         trace |-> <<"sha256.Sum256">> \o enc.trace \o <<"uuid.New", "time.Now">>]

\* Pseudonymize returning a Result with the hash beside the encryption error
PseudonymizePartialResult(value, enc, id, now) ==
    IF enc.err # <<>> THEN
        [res |-> <<[OriginalHash |-> HexEncodeToString(Sha256Sum256(value)),
                    Pseudonym |-> <<>>, EncryptedValue |-> <<>>, Timestamp |-> 0]>>,
         err |-> Wrap("encryption failed", enc.err),
         trace |-> <<"sha256.Sum256">> \o enc.trace]
    ELSE
        [res |-> <<[OriginalHash |-> HexEncodeToString(Sha256Sum256(value)),
                    Pseudonym |-> UuidString(UuidNew(id)),
                    EncryptedValue |-> enc.out,
                    Timestamp |-> now]>>,
         err |-> <<>>,
         trace |-> <<"sha256.Sum256">> \o enc.trace \o <<"uuid.New", "time.Now">>]

\* Service.Pseudonymize, lines 62-74: what follows encrypt's answer
PseudonymizeEncrypted(value, enc, id, now) ==
    IF enc.err # <<>> THEN
        [res |-> <<>>, err |-> Wrap("encryption failed", enc.err),
         trace |-> <<"sha256.Sum256">> \o enc.trace]
    ELSE
        [res |-> <<[OriginalHash |-> HexEncodeToString(Sha256Sum256(value)),
                    Pseudonym |-> UuidString(UuidNew(id)),
                    EncryptedValue |-> enc.out,
                    Timestamp |-> now]>>,
         err |-> <<>>,
         trace |-> <<"sha256.Sum256">> \o enc.trace \o <<"uuid.New", "time.Now">>]

\* Pseudonymize with the emptiness check made after the encryption
PseudonymizeLateCheck(s, value, purpose, system, rnd, id, now) ==
    IF encrypt(s, value, rnd).err # <<>> THEN
        PseudonymizeEncrypted(value, encrypt(s, value, rnd), id, now)
    ELSE IF Len(value) = 0 THEN
        [res |-> <<>>, err |-> NewError("value cannot be empty"),
         trace |-> <<"sha256.Sum256">> \o encrypt(s, value, rnd).trace]
    ELSE PseudonymizeEncrypted(value, encrypt(s, value, rnd), id, now)

\* Pseudonymize hashing the value together with its purpose and system
PseudonymizeAuditHashed(s, value, purpose, system, rnd, id, now) ==
    IF Len(value) = 0 THEN
        [res |-> <<>>, err |-> NewError("value cannot be empty"), trace |-> <<>>]
    ELSE
        [PseudonymizeEncrypted(value, encrypt(s, value, rnd), id, now) EXCEPT
            !.res = IF @ = <<>> THEN @
                    ELSE <<[@[1] EXCEPT !.OriginalHash =
                               HexEncodeToString(Sha256Sum256(value \o purpose \o system))]>>]

\* Service.Pseudonymize
Pseudonymize(s, value, purpose, system, rnd, id, now) ==
    IF Len(value) = 0 THEN
        [res |-> <<>>, err |-> NewError("value cannot be empty"), trace |-> <<>>]
    ELSE PseudonymizeEncrypted(value, encrypt(s, value, rnd), id, now)

\* Revert returning the plaintext with a nil error whatever decrypt said
RevertErrorDropped(dec) == [out |-> dec.out, err |-> <<>>, trace |-> dec.trace]

\* Service.Revert, lines 87-90: what follows decrypt's answer
RevertDecrypted(dec) ==
    IF dec.err # <<>> THEN
        [out |-> <<>>, err |-> Wrap("decryption failed", dec.err), trace |-> dec.trace]
    ELSE [out |-> dec.out, err |-> <<>>, trace |-> dec.trace]

\* Service.Revert
Revert(s, encryptedValue) == RevertDecrypted(decrypt(s, encryptedValue))

(***************************************************************************)
(* The state machine: one caller, its key buffer, the service built on it, *)
(* and the calls made so far with what each returned.                      *)
(***************************************************************************)
VARIABLES
    keyBuf,     \* the caller's key buffer (the []byte handed to NewService)
    built,      \* whether NewService has returned a service on keyBuf
    calls,      \* the completed calls, in order: arguments, draws, outcome
    threads,    \* the goroutines calling the shared service: each one's frame
    cpfIn,      \* the argument (or random draw) given to a CPF utility
    cpfOut      \* what the CPF utility returned for it

vars == <<keyBuf, built, calls, threads, cpfIn, cpfOut>>

\* the state of the goroutines, and of the CPF utilities
concVars == <<threads>>
cpfVars == <<cpfIn, cpfOut>>

\* Bounds of the exploration
MaxCalls == 2
MaxValueLen == 2

\* key buffers as make([]byte, n) gives them: AES-256, AES-128, and a length
\* that is no AES key size
KeyLens == {32, 16, 5}
\* what the caller may write into the first byte of the buffer
KeyBytes == {0, 1}

\* values: "", "1", "12", ...
Values == {Bytes([i \in 1..n |-> 48 + (i % 10)], n) : n \in 0..MaxValueLen}
\* the (purpose, system) pairs the caller passes
\* purposes "test", "audit" and systems "test", "crm"
Purposes == {<<116, 101, 115, 116>>, <<97, 117, 100, 105, 116>>}
Systems == {<<116, 101, 115, 116>>, <<99, 114, 109>>}
Audits == {<<<<116, 101, 115, 116>>, <<116, 101, 115, 116>>>>,
           <<<<97, 117, 100, 105, 116>>, <<99, 114, 109>>>>}
\* what rand.Read may give for the nonce: bytes, or an error of the source
NonceDraws ==
    {[bytes |-> [Zeros(NonceSize) EXCEPT ![NonceSize] = b], err |-> <<>>] : b \in {1, 2}}
    \cup {[bytes |-> <<>>, err |-> NewError("entropy source failed")]}
\* the 16 random bytes uuid.New may draw
IdDraws == {[Zeros(16) EXCEPT ![1] = b] : b \in {16, 32}}
\* what time.Now().Unix() may give
Times == {1700000000}
\* what a call that draws nothing records
NoDraw == [bytes |-> <<>>, err |-> <<>>]
NoId == <<>>
NoTime == 0

\* a service holding a copy of the buffer as it was when NewService was
\* called, from make
ServiceWithKeyCopy == [encryptionKey |-> Zeros(Len(keyBuf))]

\* The service: it holds the caller's buffer, not a copy of it.
Service == [encryptionKey |-> keyBuf]

\* Whether a call's trace shows the library call
Called(trace, what) == \E i \in 1..Len(trace) : trace[i] = what

\* no goroutine is running, no CPF utility was called
NoThreads == <<>>
NoCpf == [op |-> "none"]

Init ==
    /\ keyBuf = <<>>
    /\ built = FALSE
    /\ calls = <<>>
    /\ threads = NoThreads
    /\ cpfIn = NoCpf
    /\ cpfOut = NoCpf

\* key := make([]byte, n); svc := NewService(key)
NewService(n) ==
    /\ Len(calls) < MaxCalls
    /\ keyBuf' = Zeros(n)
    /\ built' = TRUE
    /\ UNCHANGED <<calls, concVars, cpfVars>>

\* the caller writes into its buffer: key[0] = b
WriteKey(b) ==
    /\ Len(calls) < MaxCalls
    /\ Len(keyBuf) > 0
    /\ keyBuf[1] # b
    /\ keyBuf' = [keyBuf EXCEPT ![1] = b]
    /\ UNCHANGED <<built, calls, concVars, cpfVars>>

\* the record of a Pseudonymize call that returned r; it keeps a draw only
\* if the call made it
PseudonymizeCall(value, audit, rnd, id, now, r) ==
    [op |-> "Pseudonymize", key |-> keyBuf, value |-> value,
     purpose |-> audit[1], system |-> audit[2],
     rnd |-> IF Called(r.trace, "rand.Read") THEN rnd ELSE NoDraw,
     id |-> IF Called(r.trace, "uuid.New") THEN id ELSE NoId,
     now |-> IF Called(r.trace, "time.Now") THEN now ELSE NoTime,
     input |-> <<>>, from |-> [kind |-> "none", of |-> 0, at |-> 0],
     res |-> r.res, out |-> <<>>, err |-> r.err, trace |-> r.trace]

\* svc.Pseudonymize(value, purpose, system).  rnd, id and now are what the
\* random source, the uuid generator and the clock give when asked.
CallPseudonymize(value, audit, rnd, id, now) ==
    /\ calls' = Append(calls,
          PseudonymizeCall(value, audit, rnd, id, now,
              Pseudonymize(Service, value, audit[1], audit[2], rnd, id, now)))
    /\ UNCHANGED <<keyBuf, built, concVars, cpfVars>>

(***************************************************************************)
(* The texts handed to Revert: an EncryptedValue an earlier call returned, *)
(* as it is or after somebody changed it, or a text from elsewhere.        *)
(***************************************************************************)
\* "", "\n", "AAAA" (3 bytes), sixteen "A" (12 bytes), "not-base64!!"
ForeignTexts ==
    { <<>>, <<LF>>, <<65, 65, 65, 65>>,
      <<65, 65, 65, 65, 65, 65, 65, 65, 65, 65, 65, 65, 65, 65, 65, 65>>,
      <<110, 111, 116, 45, 98, 97, 115, 101, 54, 52, 33, 33>> }

\* the byte a tamperer puts in place of b
TamperMasks == {1}
\* prefixes kept by a truncation: around the nonce and nonce + tag lengths
TruncLens == {0, 1, NonceSize - 1, NonceSize, NonceSize + 1,
              NonceSize + TagSize - 1, NonceSize + TagSize}

\* data with byte at (1-based) changed by mask
TamperByte(data, at, mask) == [data EXCEPT ![at] = Xor(data[at], mask)]

\* the decoded form of an EncryptedValue that encrypt returned
Decoded(enc) == B64DecodeString(enc).out

\* the texts derived from the EncryptedValue enc (data decoded), each with
\* how it was made
DerivedFrom(enc, data, of) ==
    {[text |-> enc, from |-> [kind |-> "whole", of |-> of, at |-> 0]]}
    \cup {[text |-> enc \o <<LF>>, from |-> [kind |-> "newline", of |-> of, at |-> 0]]}
    \cup {[text |-> B64Encode(TamperByte(data, at, m)),
           from |-> [kind |-> "tamper", of |-> of, at |-> at]] :
              at \in 1..Len(data), m \in TamperMasks}
    \cup {[text |-> B64Encode(Take(data, n)),
           from |-> [kind |-> "prefix", of |-> of, at |-> n]] :
              n \in {n \in TruncLens : n < Len(data)}}

Derived(enc, of) == DerivedFrom(enc, Decoded(enc), of)

RevertInputs ==
    {[text |-> t, from |-> [kind |-> "foreign", of |-> 0, at |-> 0]] : t \in ForeignTexts}
    \cup UNION {Derived(calls[i].res[1].EncryptedValue, i) :
                    i \in {i \in 1..Len(calls) : calls[i].res # <<>>}}

\* the record of a Revert call that returned r
RevertCall(in, r) ==
    [op |-> "Revert", key |-> keyBuf, value |-> <<>>,
     purpose |-> <<>>, system |-> <<>>,
     rnd |-> NoDraw, id |-> NoId, now |-> NoTime,
     input |-> in.text, from |-> in.from,
     res |-> <<>>, out |-> r.out, err |-> r.err, trace |-> r.trace]

\* svc.Revert(encryptedValue)
CallRevert(in) ==
    /\ calls' = Append(calls, RevertCall(in, Revert(Service, in.text)))
    /\ UNCHANGED <<keyBuf, built, concVars, cpfVars>>

\* the caller's next step; nothing more is recorded once MaxCalls calls are
CanCall == built /\ Len(calls) < MaxCalls

DoNewService == \E n \in KeyLens : NewService(n)

DoWriteKey == \E b \in KeyBytes : WriteKey(b)

DoPseudonymize ==
    /\ CanCall
    /\ \E value \in Values, audit \in Audits,
          rnd \in NonceDraws, id \in IdDraws, now \in Times :
            CallPseudonymize(value, audit, rnd, id, now)

DoRevert ==
    /\ CanCall
    /\ \E in \in RevertInputs : CallRevert(in)

Next ==
    \/ DoNewService
    \/ DoWriteKey
    \/ DoPseudonymize
    \/ DoRevert

Spec == Init /\ [][Next]_vars

(***************************************************************************)
(* Concurrent use: goroutines calling Pseudonymize, Revert and Hash on one *)
(* shared service.  A call runs in steps, one per statement that reads the *)
(* shared service, draws from a source, or returns; the statements between *)
(* them touch the goroutine's own frame only.  A step is given the key     *)
(* buffer and the frame and gives back both as it leaves them.             *)
(***************************************************************************)
\* Bound of the exploration: the goroutines
NumThreads == 2

Threads == 1..NumThreads

\* the frame of a goroutine that has not called yet
IdleFrame ==
    [op |-> "none", pc |-> "idle", key0 |-> <<>>, value |-> <<>>,
     purpose |-> <<>>, system |-> <<>>, input |-> <<>>,
     rnd |-> NoDraw, id |-> NoId, now |-> NoTime,
     hash |-> <<>>, block |-> <<>>, data |-> <<>>, enc |-> <<>>,
     res |-> <<>>, out |-> <<>>, err |-> <<>>, mixed |-> FALSE]

\* a call returning err
Returned(key, f, err) == [key |-> key, frame |-> [f EXCEPT !.pc = "done", !.err = err]]

\* Service.Pseudonymize, lines 52-58: the emptiness check and the hash
pseudonymizeCheck(key, f) ==
    IF Len(f.value) = 0 THEN Returned(key, f, NewError("value cannot be empty"))
    ELSE [key |-> key,
          frame |-> [f EXCEPT !.pc = "E101",
                              !.hash = HexEncodeToString(Sha256Sum256(f.value))]]

\* encrypt's cipher setup that wipes the key buffer once the cipher holds it
encryptNewCipherWipesKey(key, f) ==
    IF AesNewCipher(key) # <<>>
    THEN Returned(key, f, Wrap("encryption failed", AesNewCipher(key)))
    ELSE [key |-> Zeros(Len(key)), frame |-> [f EXCEPT !.pc = "E111", !.block = key]]

\* Service.encrypt, lines 101-109: the cipher is set up from the shared key
\* (aes.NewCipher expands the key into the block it returns)
encryptNewCipher(key, f) ==
    IF AesNewCipher(key) # <<>>
    THEN Returned(key, f, Wrap("encryption failed", AesNewCipher(key)))
    ELSE [key |-> key, frame |-> [f EXCEPT !.pc = "E111", !.block = key]]

\* Service.encrypt, lines 110-114: the nonce is drawn
encryptReadNonce(key, f, rnd) ==
    IF rnd.err # <<>>
    THEN Returned(key, [f EXCEPT !.rnd = rnd], Wrap("encryption failed", rnd.err))
    ELSE [key |-> key, frame |-> [f EXCEPT !.pc = "E116", !.rnd = rnd]]

\* Service.encrypt, lines 116-117: seal and encode
encryptSeal(key, f) ==
    [key |-> key,
     frame |-> [f EXCEPT !.pc = "P67",
                         !.enc = B64Encode(GcmSeal(f.block, f.rnd.bytes, f.rnd.bytes,
                                                   f.value, <<>>))]]

\* Service.Pseudonymize, lines 66-74: the Result is put together
pseudonymizeResult(key, f, id, now) ==
    [key |-> key,
     frame |-> [f EXCEPT !.pc = "done", !.id = id, !.now = now,
                         !.res = <<[OriginalHash |-> f.hash,
                                    Pseudonym |-> UuidString(UuidNew(id)),
                                    EncryptedValue |-> f.enc,
                                    Timestamp |-> now]>>]]

\* Service.decrypt, lines 122-125: what follows base64's answer
decryptDecodeResult(key, f, dec) ==
    IF dec.err # <<>> THEN Returned(key, f, Wrap("decryption failed", dec.err))
    ELSE [key |-> key, frame |-> [f EXCEPT !.pc = "D127", !.data = dec.out]]

\* Service.decrypt, lines 122-125: the text is decoded
decryptDecode(key, f) == decryptDecodeResult(key, f, B64DecodeString(f.input))

\* Service.decrypt, lines 127-135: the cipher is set up from the shared key
decryptNewCipher(key, f) ==
    IF AesNewCipher(key) # <<>>
    THEN Returned(key, f, Wrap("decryption failed", AesNewCipher(key)))
    ELSE [key |-> key, frame |-> [f EXCEPT !.pc = "D137", !.block = key]]

\* Service.decrypt, lines 143-148, and Revert, lines 87-90: after gcm.Open
decryptOpened(key, f, opened) ==
    IF opened.err # <<>> THEN Returned(key, f, Wrap("decryption failed", opened.err))
    ELSE [key |-> key, frame |-> [f EXCEPT !.pc = "done", !.out = opened.out]]

\* Service.decrypt, lines 137-148: the length check and gcm.Open
decryptOpen(key, f) ==
    IF Len(f.data) < NonceSize
    THEN Returned(key, f, Wrap("decryption failed", NewError("ciphertext too short")))
    ELSE decryptOpened(key, f,
             GcmOpen(f.block, Take(f.data, NonceSize), Drop(f.data, NonceSize), <<>>))

\* Service.Hash, lines 94-97
hashSum(key, f) ==
    [key |-> key,
     frame |-> [f EXCEPT !.pc = "done", !.out = HexEncodeToString(Sha256Sum256(f.value))]]

\* the inputs of the concurrent calls
ConcKeys == {[Zeros(32) EXCEPT ![1] = 1], Zeros(5)}
ConcValues == {<<>>, <<49>>}
ConcAudit == <<<<116, 101, 115, 116>>, <<116, 101, 115, 116>>>>
\* an EncryptedValue of "1" that an earlier run returned under the 32-byte key
ConcArtifact ==
    B64Encode(GcmSeal([Zeros(32) EXCEPT ![1] = 1], [Zeros(NonceSize) EXCEPT ![NonceSize] = 1],
                      [Zeros(NonceSize) EXCEPT ![NonceSize] = 1], <<49>>, <<>>))
\* what rand.Read, uuid.New and time.Now may give a goroutine
ConcNonceDraws == {d \in NonceDraws : d.err # <<>> \/ d.bytes[NonceSize] = 2}
ConcIdDraws == {id \in IdDraws : id[1] = 16}
\* the texts goroutines hand to Revert: that one, whole and with a byte of
\* the body changed, those the finished calls returned, and foreign ones
ConcRevertInputs ==
    {<<>>, <<110, 111, 116, 45, 98, 97, 115, 101, 54, 52, 33, 33>>,
     ConcArtifact, B64Encode(TamperByte(Decoded(ConcArtifact), NonceSize + 1, 1))}
    \cup {threads[t].res[1].EncryptedValue :
             t \in {t \in Threads : threads[t].res # <<>>}}

InFlight(f) == f.pc \notin {"idle", "done"}

\* the state after the service was built on one of the keys
InitConc ==
    /\ keyBuf \in ConcKeys
    /\ built = TRUE
    /\ calls = <<>>
    /\ threads = [t \in Threads |-> IdleFrame]
    /\ cpfIn = NoCpf
    /\ cpfOut = NoCpf

At(t, pc) == threads[t].pc = pc

\* goroutine t enters a call: the frame holds its arguments
Enter(t, f) ==
    /\ threads' = [threads EXCEPT ![t] = [f EXCEPT !.key0 = keyBuf]]
    /\ UNCHANGED <<keyBuf, built, calls, cpfVars>>

\* goroutine t runs its next statements, which leave r; the calls in flight
\* at that moment have run side by side with it
Step(t, r) ==
    /\ keyBuf' = r.key
    /\ threads' =
          [u \in Threads |->
              IF u = t
              THEN [r.frame EXCEPT
                       !.mixed = @ \/ \E v \in Threads \ {t} : InFlight(threads[v])]
              ELSE IF InFlight(threads[u]) THEN [threads[u] EXCEPT !.mixed = TRUE]
              ELSE threads[u]]
    /\ UNCHANGED <<built, calls, cpfVars>>

GoPseudonymize ==
    \E t \in Threads, value \in ConcValues : At(t, "idle") /\
        Enter(t, [IdleFrame EXCEPT !.op = "Pseudonymize", !.pc = "P52", !.value = value,
                                   !.purpose = ConcAudit[1], !.system = ConcAudit[2]])

GoRevert ==
    \E t \in Threads, text \in ConcRevertInputs : At(t, "idle") /\
        Enter(t, [IdleFrame EXCEPT !.op = "Revert", !.pc = "D122", !.input = text])

GoHash ==
    \E t \in Threads, value \in ConcValues : At(t, "idle") /\
        Enter(t, [IdleFrame EXCEPT !.op = "Hash", !.pc = "H95", !.value = value])

StepPseudonymizeCheck ==
    \E t \in Threads : At(t, "P52") /\ Step(t, pseudonymizeCheck(keyBuf, threads[t]))

StepEncryptNewCipher ==
    \E t \in Threads : At(t, "E101") /\ Step(t, encryptNewCipher(keyBuf, threads[t]))

StepEncryptReadNonce ==
    \E t \in Threads : At(t, "E111") /\ \E rnd \in ConcNonceDraws :
        Step(t, encryptReadNonce(keyBuf, threads[t], rnd))

StepEncryptSeal ==
    \E t \in Threads : At(t, "E116") /\ Step(t, encryptSeal(keyBuf, threads[t]))

StepPseudonymizeResult ==
    \E t \in Threads : At(t, "P67") /\ \E id \in ConcIdDraws, now \in Times :
        Step(t, pseudonymizeResult(keyBuf, threads[t], id, now))

StepDecryptDecode ==
    \E t \in Threads : At(t, "D122") /\ Step(t, decryptDecode(keyBuf, threads[t]))

StepDecryptNewCipher ==
    \E t \in Threads : At(t, "D127") /\ Step(t, decryptNewCipher(keyBuf, threads[t]))

StepDecryptOpen ==
    \E t \in Threads : At(t, "D137") /\ Step(t, decryptOpen(keyBuf, threads[t]))

StepHashSum ==
    \E t \in Threads : At(t, "H95") /\ Step(t, hashSum(keyBuf, threads[t]))

NextConc ==
    \/ GoPseudonymize
    \/ GoRevert
    \/ GoHash
    \/ StepPseudonymizeCheck
    \/ StepEncryptNewCipher
    \/ StepEncryptReadNonce
    \/ StepEncryptSeal
    \/ StepPseudonymizeResult
    \/ StepDecryptDecode
    \/ StepDecryptNewCipher
    \/ StepDecryptOpen
    \/ StepHashSum

SpecConc == InitConc /\ [][NextConc]_vars

(***************************************************************************)
(* The CPF utilities (package utils).  A string is the sequence of its     *)
(* bytes.  Ranging over a string gives its runes; a byte of 128 or more    *)
(* belongs to a rune that is no ASCII digit, so the digit test on runes is *)
(* the digit test on bytes.                                                *)
(***************************************************************************)
\* c >= '0' && c <= '9'
IsDigitChar(c) == c >= 48 /\ c <= 57

\* cleanCPF
cleanCPF(cpf) == SelectSeq(cpf, IsDigitChar)

\* allDigitsSame (cpf is not empty)
allDigitsSame(cpf) == \A i \in 2..Len(cpf) : cpf[i] = cpf[1]

\* calculateCPFCheckDigit, lines 78-82: the loop from the i-th character on
RECURSIVE cpfSum(_, _, _)
cpfSum(partialCPF, i, weight) ==
    IF i > Len(partialCPF) THEN 0
    ELSE (partialCPF[i] - 48) * weight + cpfSum(partialCPF, i + 1, weight - 1)

\* calculateCPFCheckDigit, lines 84-88: comparing the remainder with 1
cpfDigitOfRemainderBelowOne(remainder) ==
    IF remainder < 1 THEN 48 ELSE (48 + (11 - remainder)) % 256

\* calculateCPFCheckDigit, lines 84-88
cpfDigitOfRemainder(remainder) ==
    IF remainder < 2 THEN 48 ELSE (48 + (11 - remainder)) % 256

\* calculateCPFCheckDigit
calculateCPFCheckDigit(partialCPF, weight) ==
    cpfDigitOfRemainder(cpfSum(partialCPF, 1, weight) % 11)

\* formatCPF
formatCPF(cpf) ==
    IF Len(cpf) # 11 THEN cpf
    ELSE SubSeq(cpf, 1, 3) \o <<46>> \o SubSeq(cpf, 4, 6) \o <<46>>
         \o SubSeq(cpf, 7, 9) \o <<45>> \o SubSeq(cpf, 10, 11)

\* IsValidCPF, lines 25-38: after the cleaning
isValidCleaned(cleaned) ==
    IF Len(cleaned) # 11 THEN FALSE
    ELSE IF allDigitsSame(cleaned) THEN FALSE
    ELSE /\ cleaned[10] = calculateCPFCheckDigit(Take(cleaned, 9), 10)
         /\ cleaned[11] = calculateCPFCheckDigit(Take(cleaned, 10), 11)

\* IsValidCPF
IsValidCPF(cpf) == isValidCleaned(cleanCPF(cpf))

\* GenerateSyntheticCPF, lines 64-73: from the partial CPF on
generateFromPartial(partialCPF, firstDigit) ==
    formatCPF(partialCPF \o <<firstDigit>>
              \o <<calculateCPFCheckDigit(partialCPF \o <<firstDigit>>, 11)>>)

\* GenerateSyntheticCPF; rnd is what rand.Read gives for the 6 bytes
GenerateSyntheticCPF(rnd) ==
    IF rnd.err # <<>>
    THEN [out |-> <<>>, err |-> Wrap("falha ao gerar dígitos aleatórios", rnd.err)]
    ELSE [out |-> generateFromPartial(
                      <<57, 57, 57>> \o [i \in 1..6 |-> 48 + (rnd.bytes[i] % 10)],
                      calculateCPFCheckDigit(
                          <<57, 57, 57>> \o [i \in 1..6 |-> 48 + (rnd.bytes[i] % 10)], 10)),
          err |-> <<>>]

\* Bound of the exploration: the digits written after a CPF's eleven
MaxExtraDigits == 1

\* the characters of the digits ds
DigitChars(ds) == Bytes([i \in 1..Len(ds) |-> 48 + ds[i]], Len(ds))

\* the first nine digits of the CPFs tried: 529982247 and 123456789 of the
\* tests, 111444777, and three of one digit repeated
CpfBodies ==
    { <<5, 2, 9, 9, 8, 2, 2, 4, 7>>, <<1, 2, 3, 4, 5, 6, 7, 8, 9>>,
      <<1, 1, 1, 4, 4, 4, 7, 7, 7>>, <<1, 1, 1, 1, 1, 1, 1, 1, 1>>,
      <<9, 9, 9, 9, 9, 9, 9, 9, 9>>, <<0, 0, 0, 0, 0, 0, 0, 0, 0>> }

\* eleven digits: a body and any two digits after it
CpfNumbers == {DigitChars(b \o <<d1, d2>>) : b \in CpfBodies, d1 \in 0..9, d2 \in 0..9}

\* the ways a number is written: bare, formatted, with blanks around it and
\* a newline, with letters and the two bytes of a non-ASCII letter in it
CpfWritings(n) ==
    { n, formatCPF(n), <<32>> \o formatCPF(n) \o <<32, 10>>,
      <<67, 80, 70, 58>> \o Take(n, 5) \o <<195, 169>> \o Drop(n, 5) }

\* the texts given to IsValidCPF: the numbers in their writings, their
\* prefixes, and the numbers with more digits after them
CpfTexts ==
    UNION {CpfWritings(n) : n \in CpfNumbers}
    \cup {Take(DigitChars(b), k) : b \in CpfBodies, k \in 0..9}
    \cup {formatCPF(n) \o DigitChars([i \in 1..k |-> 2]) :
             n \in {DigitChars(b \o <<calculateCPFCheckDigit(DigitChars(b), 10) - 48,
                                      calculateCPFCheckDigit(
                                          DigitChars(b \o <<calculateCPFCheckDigit(
                                                               DigitChars(b), 10) - 48>>),
                                          11) - 48>>) : b \in CpfBodies},
             k \in 1..MaxExtraDigits}

\* the bytes rand.Read may put in each of the six places
RandomBytes == {0, 9, 128, 255}
\* what rand.Read may give GenerateSyntheticCPF
RandomDigitDraws ==
    {[bytes |-> bs, err |-> <<>>] : bs \in [1..6 -> RandomBytes]}
    \cup {[bytes |-> <<>>, err |-> NewError("entropy source failed")]}

\* a call about to be made, with its argument or with the draw it will get
CpfArgs ==
    {[op |-> "IsValidCPF", text |-> t, rnd |-> NoDraw] : t \in CpfTexts}
    \cup {[op |-> "GenerateSyntheticCPF", text |-> <<>>, rnd |-> r] : r \in RandomDigitDraws}

InitCPF ==
    /\ keyBuf = <<>>
    /\ built = FALSE
    /\ calls = <<>>
    /\ threads = NoThreads
    /\ cpfIn \in CpfArgs
    /\ cpfOut = NoCpf

\* utils.IsValidCPF(text)
CallIsValidCPF ==
    /\ cpfIn.op = "IsValidCPF"
    /\ cpfOut.op = "none"
    /\ cpfOut' = [op |-> "IsValidCPF", valid |-> IsValidCPF(cpfIn.text),
                  out |-> <<>>, err |-> <<>>]
    /\ UNCHANGED <<keyBuf, built, calls, concVars, cpfIn>>

\* utils.GenerateSyntheticCPF()
CallGenerateSyntheticCPF ==
    /\ cpfIn.op = "GenerateSyntheticCPF"
    /\ cpfOut.op = "none"
    /\ cpfOut' = [op |-> "GenerateSyntheticCPF", valid |-> FALSE]
                 @@ GenerateSyntheticCPF(cpfIn.rnd)
    /\ UNCHANGED <<keyBuf, built, calls, concVars, cpfIn>>

NextCPF ==
    \/ CallIsValidCPF
    \/ CallGenerateSyntheticCPF

SpecCPF == InitCPF /\ [][NextCPF]_vars

(***************************************************************************)
(* The failure kinds of the specification, as the errors the code returns  *)
(***************************************************************************)
IsEmptyInput(err) == err = NewError("value cannot be empty")

IsEncryptionFailure(err) == Len(err) >= 2 /\ err[1] = NewError("encryption failed")[1]

IsCipherSetupError(err) == Len(err) = 1 /\ err[1].msg = "crypto/aes: invalid key size"

IsDecodingFailure(err) ==
    /\ Len(err) = 2
    /\ err[1] = NewError("decryption failed")[1]
    /\ err[2].msg = "illegal base64 data at input byte"

IsTruncatedCiphertext(err) == err = Wrap("decryption failed", NewError("ciphertext too short"))

IsAuthenticationFailure(err) == err = Wrap("decryption failed", ErrOpen)

\* the calls of the log, by kind
PseudonymizeCalls == {i \in 1..Len(calls) : calls[i].op = "Pseudonymize"}
Artifacts == {i \in PseudonymizeCalls : calls[i].res # <<>>}
RevertCalls == {j \in 1..Len(calls) : calls[j].op = "Revert"}
\* the Revert calls given a text made from the EncryptedValue of call i
RevertsOf(kind) == {j \in RevertCalls : calls[j].from.kind = kind}

(***************************************************************************)
(* C1.  Round trip: Revert of the EncryptedValue that Pseudonymize         *)
(* returned for a non-empty value, on a service holding the key it was     *)
(* encrypted under, succeeds and returns exactly that value, whatever the  *)
(* nonce, purpose and system were.                                         *)
(***************************************************************************)
C1_RoundTrip ==
    \A j \in RevertsOf("whole") :
        calls[j].key = calls[calls[j].from.of].key
            => /\ calls[j].err = <<>>
               /\ calls[j].out = calls[calls[j].from.of].value

C1_Witness ==
    \E j \in RevertsOf("whole") :
        /\ calls[j].key = calls[calls[j].from.of].key
        /\ calls[j].out = calls[calls[j].from.of].value
        /\ Len(calls[j].out) = MaxValueLen

(***************************************************************************)
(* C2.  Tamper detection: when one byte of the decoded form of a valid     *)
(* EncryptedValue is changed (in the nonce, the body or the tag) and the   *)
(* result is encoded again, Revert under the key of the encryption fails   *)
(* with the authentication failure; and no Revert of a text made from an   *)
(* EncryptedValue succeeds with another plaintext than the one encrypted.  *)
(***************************************************************************)
C2_TamperDetected ==
    /\ \A j \in RevertsOf("tamper") :
          calls[j].key = calls[calls[j].from.of].key
              => IsAuthenticationFailure(calls[j].err) /\ calls[j].out = <<>>
    /\ \A j \in RevertCalls :
          (calls[j].from.of > 0 /\ calls[j].err = <<>>)
              => calls[j].out = calls[calls[j].from.of].value

\* a byte of the body was changed, and the key is the key of the encryption
C2_Witness ==
    \E j \in RevertsOf("tamper") :
        /\ calls[j].key = calls[calls[j].from.of].key
        /\ calls[j].from.at = NonceSize + 1
        /\ IsAuthenticationFailure(calls[j].err)

(***************************************************************************)
(* C3.  Wrong key, as claimed: Revert of an EncryptedValue produced under  *)
(* key k1, on a service built with any other key k2, fails with the        *)
(* authentication failure and returns the empty string.                    *)
(***************************************************************************)
C3_WrongKeyAnyKey ==
    \A j \in RevertsOf("whole") :
        calls[j].key # calls[calls[j].from.of].key
            => IsAuthenticationFailure(calls[j].err) /\ calls[j].out = <<>>

(***************************************************************************)
(* C3, amended.  With another key k2 of a valid AES length the Revert      *)
(* fails with the authentication failure; with a k2 of any other length it *)
(* fails with the cipher-setup error.  Either way it returns the empty     *)
(* string.                                                                 *)
(***************************************************************************)
C3_WrongKey ==
    \A j \in RevertsOf("whole") :
        calls[j].key # calls[calls[j].from.of].key
            => /\ calls[j].out = <<>>
               /\ IF Len(calls[j].key) \in AesKeySizes
                  THEN IsAuthenticationFailure(calls[j].err)
                  ELSE /\ Len(calls[j].err) = 2
                       /\ calls[j].err[1] = NewError("decryption failed")[1]
                       /\ IsCipherSetupError(Tail(calls[j].err))

\* another key of the same valid length
C3_Witness ==
    \E j \in RevertsOf("whole") :
        /\ calls[j].key # calls[calls[j].from.of].key
        /\ Len(calls[j].key) = Len(calls[calls[j].from.of].key)
        /\ IsAuthenticationFailure(calls[j].err)

(***************************************************************************)
(* C4.  Empty input: Pseudonymize of a zero-length value fails with the    *)
(* empty-input error and returns no Result; the check comes before any     *)
(* cryptographic step, also when the key has an invalid length, and        *)
(* neither a nonce, nor a pseudonym, nor a timestamp is drawn.             *)
(***************************************************************************)
C4_EmptyInput ==
    \A i \in PseudonymizeCalls :
        calls[i].value = <<>>
            => /\ IsEmptyInput(calls[i].err)
               /\ calls[i].res = <<>>
               /\ calls[i].trace = <<>>
               /\ calls[i].rnd = NoDraw /\ calls[i].id = NoId /\ calls[i].now = NoTime

\* the empty value on a service whose key has an invalid length
C4_Witness ==
    \E i \in PseudonymizeCalls :
        /\ calls[i].value = <<>>
        /\ Len(calls[i].key) \notin AesKeySizes
        /\ IsEmptyInput(calls[i].err)

(***************************************************************************)
(* C5.  The fingerprint depends on the value alone: the OriginalHash of    *)
(* every successful Pseudonymize equals Hash(value) of a service with any  *)
(* key, and two successful calls on the same value return the same         *)
(* OriginalHash whatever their keys, purposes, systems and draws.          *)
(***************************************************************************)
C5_FingerprintOfValue ==
    /\ \A i \in Artifacts : \A n \in KeyLens, b \in KeyBytes :
          calls[i].res[1].OriginalHash
              = Hash([encryptionKey |-> [Zeros(n) EXCEPT ![1] = b]], calls[i].value)
    /\ \A i, j \in Artifacts :
          calls[i].value = calls[j].value
              => calls[i].res[1].OriginalHash = calls[j].res[1].OriginalHash

\* the same value under two keys, with other purpose, system and nonce
C5_Witness ==
    \E i, j \in Artifacts :
        /\ calls[i].value = calls[j].value
        /\ calls[i].key # calls[j].key
        /\ calls[i].purpose # calls[j].purpose
        /\ calls[i].rnd # calls[j].rnd
        /\ calls[i].res[1].OriginalHash = calls[j].res[1].OriginalHash

(***************************************************************************)
(* C6.  Non-determinism, as claimed: two successful Pseudonymize calls     *)
(* with the same value, purpose and system on the same service return      *)
(* different Pseudonyms and different EncryptedValues, and the same        *)
(* OriginalHash.                                                           *)
(***************************************************************************)
SameArguments(i, j) ==
    /\ calls[i].key = calls[j].key
    /\ calls[i].value = calls[j].value
    /\ calls[i].purpose = calls[j].purpose
    /\ calls[i].system = calls[j].system

C6_AlwaysDifferent ==
    \A i, j \in Artifacts :
        (i < j /\ SameArguments(i, j))
            => /\ calls[i].res[1].Pseudonym # calls[j].res[1].Pseudonym
               /\ calls[i].res[1].EncryptedValue # calls[j].res[1].EncryptedValue
               /\ calls[i].res[1].OriginalHash = calls[j].res[1].OriginalHash

(***************************************************************************)
(* C6, amended.  Two such calls return the same OriginalHash; their        *)
(* EncryptedValues are equal exactly when rand.Read gave both the same     *)
(* nonce, and their Pseudonyms are equal exactly when uuid.New gave both   *)
(* the same UUID.  Nothing keeps a draw from repeating.                    *)
(***************************************************************************)
C6_DifferentPerDraw ==
    \A i, j \in Artifacts :
        (i < j /\ SameArguments(i, j))
            => /\ calls[i].res[1].OriginalHash = calls[j].res[1].OriginalHash
               /\ (calls[i].res[1].EncryptedValue = calls[j].res[1].EncryptedValue)
                      <=> (calls[i].rnd = calls[j].rnd)
               /\ (calls[i].res[1].Pseudonym = calls[j].res[1].Pseudonym)
                      <=> (UuidNew(calls[i].id) = UuidNew(calls[j].id))

\* two calls with the same arguments that drew another nonce and another UUID
C6_Witness ==
    \E i, j \in Artifacts :
        /\ i < j /\ SameArguments(i, j)
        /\ calls[i].rnd # calls[j].rnd /\ calls[i].id # calls[j].id
        /\ calls[i].res[1].Pseudonym # calls[j].res[1].Pseudonym
        /\ calls[i].res[1].EncryptedValue # calls[j].res[1].EncryptedValue

(***************************************************************************)
(* C7.  A bad key is found late: NewService returns a service for a key of *)
(* any length, and a Pseudonymize of a non-empty value on a service whose  *)
(* key has no valid AES length fails with the encryption failure that      *)
(* wraps the cipher-setup error and returns no Result.                     *)
(***************************************************************************)
C7_BadKeyDeferred ==
    /\ Len(keyBuf) > 0 => built
    /\ \A i \in PseudonymizeCalls :
          (calls[i].value # <<>> /\ Len(calls[i].key) \notin AesKeySizes)
              => /\ calls[i].res = <<>>
                 /\ IsEncryptionFailure(calls[i].err)
                 /\ Tail(calls[i].err)
                        = IntError("crypto/aes: invalid key size", Len(calls[i].key))

C7_Witness ==
    \E i \in PseudonymizeCalls :
        /\ calls[i].value # <<>>
        /\ Len(calls[i].key) \notin AesKeySizes
        /\ IsEncryptionFailure(calls[i].err)
        /\ calls[i].res = <<>>

(***************************************************************************)
(* C8.  Malformed encoding, as claimed: Revert of a text that is not       *)
(* padded standard base64 (RFC 4648: groups of four characters of the      *)
(* alphabet, the last group ending in no, one or two "=") fails with the   *)
(* decoding failure and returns no plaintext.                              *)
(***************************************************************************)
IsStdBase64(t) ==
    /\ Len(t) % 4 = 0
    /\ \A i \in 1..Len(t) :
          \/ B64Value(t[i]) >= 0
          \/ /\ t[i] = PadChar
             /\ i >= Len(t) - 1
             /\ t[Len(t)] = PadChar

IsNewline(c) == c \in {LF, CR}
IsNoNewline(c) == ~IsNewline(c)
WithoutNewlines(t) == SelectSeq(t, IsNoNewline)

C8_NotBase64Fails ==
    \A j \in RevertCalls :
        ~IsStdBase64(calls[j].input)
            => IsDecodingFailure(calls[j].err) /\ calls[j].out = <<>>

(***************************************************************************)
(* C8, amended.  Revert of a text that, with its CR and LF characters      *)
(* left out, is not padded standard base64 fails with the decoding         *)
(* failure and returns no plaintext, whatever key the service holds.  (CR  *)
(* and LF are skipped by the decoder: "\n" decodes to no bytes.)           *)
(***************************************************************************)
C8_MalformedEncoding ==
    \A j \in RevertCalls :
        ~IsStdBase64(WithoutNewlines(calls[j].input))
            => IsDecodingFailure(calls[j].err) /\ calls[j].out = <<>>

\* a malformed text given to a service whose key has an invalid length
C8_Witness ==
    \E j \in RevertCalls :
        /\ ~IsStdBase64(WithoutNewlines(calls[j].input))
        /\ Len(calls[j].key) \notin AesKeySizes
        /\ IsDecodingFailure(calls[j].err)

(***************************************************************************)
(* C9.  Truncated ciphertext: on a service with a valid key, Revert of a   *)
(* text that decodes to fewer bytes than the nonce has (the empty text     *)
(* too) fails with "ciphertext too short" and never calls gcm.Open; a text *)
(* that decodes to at least the nonce but less than nonce plus tag fails   *)
(* with the authentication failure.                                        *)
(***************************************************************************)
C9_Truncated ==
    \A j \in RevertCalls :
        (Len(calls[j].key) \in AesKeySizes /\ B64DecodeString(calls[j].input).err = <<>>)
            => /\ Len(Decoded(calls[j].input)) < NonceSize
                    => /\ IsTruncatedCiphertext(calls[j].err)
                       /\ ~Called(calls[j].trace, "gcm.Open")
                       /\ calls[j].out = <<>>
               /\ (/\ Len(Decoded(calls[j].input)) >= NonceSize
                   /\ Len(Decoded(calls[j].input)) < NonceSize + TagSize)
                    => /\ IsAuthenticationFailure(calls[j].err)
                       /\ Called(calls[j].trace, "gcm.Open")

\* the empty text, and a text of exactly a nonce, on valid keys
C9_Witness ==
    \E j, k \in RevertCalls :
        /\ Len(calls[j].key) \in AesKeySizes /\ Len(calls[k].key) \in AesKeySizes
        /\ calls[j].input = <<>> /\ IsTruncatedCiphertext(calls[j].err)
        /\ B64DecodeString(calls[k].input).err = <<>>
        /\ Len(Decoded(calls[k].input)) = NonceSize
        /\ IsAuthenticationFailure(calls[k].err)

(***************************************************************************)
(* C10.  The audit metadata has no effect: a Pseudonymize call returns,    *)
(* with any other purpose and system and the same draws, the same Result   *)
(* and the same error; and an EncryptedValue reverts under its key         *)
(* whatever purpose and system it was produced with.  (Stated of the call  *)
(* that returned last: every call of the log was the last one in the state *)
(* it returned in.)                                                        *)
(***************************************************************************)
SameOutcome(c, r) == r.res = c.res /\ r.err = c.err

C10_AuditNoEffect ==
    /\ \A i \in PseudonymizeCalls \cap {Len(calls)} : \A p \in Purposes, sy \in Systems :
          SameOutcome(calls[i],
              Pseudonymize([encryptionKey |-> calls[i].key], calls[i].value, p, sy,
                           calls[i].rnd, calls[i].id, calls[i].now))
    /\ \A j \in RevertsOf("whole") :
          calls[j].key = calls[calls[j].from.of].key => calls[j].err = <<>>

\* two calls that differ in purpose and system only, with the same Result
C10_Witness ==
    \E i, j \in Artifacts :
        /\ calls[i].purpose # calls[j].purpose /\ calls[i].system # calls[j].system
        /\ calls[i].key = calls[j].key /\ calls[i].value = calls[j].value
        /\ calls[i].rnd = calls[j].rnd /\ calls[i].id = calls[j].id
        /\ calls[i].res = calls[j].res

(***************************************************************************)
(* C11.  Concurrency safety: in every interleaving of the goroutines'      *)
(* Pseudonymize, Revert and Hash calls on the shared service, the key      *)
(* buffer is what it was when each call was entered, and a call that has   *)
(* returned returned what the same call returns when run alone on a        *)
(* service holding that key, with the same draws.                          *)
(***************************************************************************)
ReturnedAs(f, res, out, err) == f.res = res /\ f.out = out /\ f.err = err

ReturnedAsPseudonymize(f, r) == ReturnedAs(f, r.res, <<>>, r.err)

ReturnedAsRevert(f, r) == ReturnedAs(f, <<>>, r.out, r.err)

AsAlone(f) ==
    CASE f.op = "Pseudonymize" ->
            ReturnedAsPseudonymize(f,
                Pseudonymize([encryptionKey |-> f.key0], f.value, f.purpose, f.system,
                             f.rnd, f.id, f.now))
      [] f.op = "Revert" ->
            ReturnedAsRevert(f, Revert([encryptionKey |-> f.key0], f.input))
      [] f.op = "Hash" ->
            ReturnedAs(f, <<>>, Hash([encryptionKey |-> f.key0], f.value), <<>>)

C11_ConcurrencySafe ==
    \A t \in DOMAIN threads :
        /\ threads[t].pc # "idle" => threads[t].key0 = keyBuf
        /\ threads[t].pc = "done" => AsAlone(threads[t])

\* a Pseudonymize and a Revert that ran side by side and both succeeded
C11_Witness ==
    \E t, u \in DOMAIN threads :
        /\ threads[t].pc = "done" /\ threads[t].mixed
        /\ threads[u].pc = "done" /\ threads[u].mixed
        /\ threads[t].op = "Pseudonymize" /\ threads[t].res # <<>>
        /\ threads[u].op = "Revert" /\ threads[u].out = <<49>>

(***************************************************************************)
(* C12.  Every CPF that GenerateSyntheticCPF returns, whatever the six     *)
(* random bytes were, is accepted by IsValidCPF, begins with 999 once the  *)
(* formatting characters are removed, and has the shape 999.XXX.XXX-XX.    *)
(***************************************************************************)
HasSyntheticShape(cpf) ==
    /\ Len(cpf) = 14
    /\ \A i \in {1, 2, 3} : cpf[i] = 57
    /\ cpf[4] = 46 /\ cpf[8] = 46 /\ cpf[12] = 45
    /\ \A i \in {5, 6, 7, 9, 10, 11, 13, 14} : IsDigitChar(cpf[i])

C12_GeneratedValid ==
    (cpfOut.op = "GenerateSyntheticCPF" /\ cpfOut.err = <<>>)
        => /\ IsValidCPF(cpfOut.out)
           /\ Take(cleanCPF(cpfOut.out), 3) = <<57, 57, 57>>
           /\ HasSyntheticShape(cpfOut.out)

(***************************************************************************)
(* C14.  IsValidCPF(s) is true exactly when the decimal digits of s, in    *)
(* order and with every other character dropped, are eleven, are not all   *)
(* the same, and have as 10th and 11th the check digits of the first 9 and *)
(* of the first 10 (the sum of the digits weighted n+1 down to 2, modulo   *)
(* 11; 0 for a remainder below 2, else 11 minus the remainder).  So the    *)
(* bare and the formatted writing of a number get the same answer, and a   *)
(* text of fewer or more than eleven digits is rejected.                   *)
(***************************************************************************)
RECURSIVE DigitsOf(_)
DigitsOf(s) ==
    IF s = <<>> THEN <<>>
    ELSE (IF Head(s) \in 48..57 THEN <<Head(s) - 48>> ELSE <<>>) \o DigitsOf(Tail(s))

\* the check digit that follows the first n digits of ds
CheckDigitAfter(ds, n) ==
    LET S[i \in 0..n] == IF i = 0 THEN 0 ELSE S[i - 1] + ds[i] * (n + 2 - i)
    IN  IF S[n] % 11 < 2 THEN 0 ELSE 11 - (S[n] % 11)

IsCpfNumber(ds) ==
    /\ Len(ds) = 11
    /\ \E i, j \in 1..11 : ds[i] # ds[j]
    /\ ds[10] = CheckDigitAfter(ds, 9)
    /\ ds[11] = CheckDigitAfter(ds, 10)

C14_ValidExactlyWhen ==
    cpfOut.op = "IsValidCPF"
        => /\ cpfOut.valid <=> IsCpfNumber(DigitsOf(cpfIn.text))
           /\ Len(DigitsOf(cpfIn.text)) = 11
                 => /\ IsValidCPF(DigitChars(DigitsOf(cpfIn.text))) = cpfOut.valid
                    /\ IsValidCPF(formatCPF(DigitChars(DigitsOf(cpfIn.text)))) = cpfOut.valid
           /\ Len(DigitsOf(cpfIn.text)) # 11 => ~cpfOut.valid

\* "529.982.247-25" is accepted
C14_Witness ==
    /\ cpfOut.op = "IsValidCPF"
    /\ cpfIn.text = <<53, 50, 57, 46, 57, 56, 50, 46, 50, 52, 55, 45, 50, 53>>
    /\ cpfOut.valid

(***************************************************************************)
(* C13.  Revert does not tell a wrong key from changed data.  The failure  *)
(* of a Revert of an EncryptedValue on a service holding another key of a  *)
(* valid length is the failure (same error chain, same message, same empty *)
(* plaintext) of the Revert, under the key of the encryption, of that      *)
(* EncryptedValue with any one byte changed; and the failure of a Revert   *)
(* of such a changed text under the key of the encryption is the failure   *)
(* of the Revert of the unchanged text under every other valid key.        *)
(***************************************************************************)
\* the key buffers of a valid length that the caller can have
ValidKeys == {[Zeros(n) EXCEPT ![1] = b] : n \in KeyLens \cap AesKeySizes, b \in KeyBytes}

SameFailure(c, r) ==
    /\ c.err # <<>> /\ r.err = c.err
    /\ ErrorString(r.err) = ErrorString(c.err)
    /\ r.out = c.out /\ c.out = <<>>

\* c failed as Revert under key fails on data with any one byte changed
FailsAsTampered(c, key, data) ==
    \A at \in 1..Len(data), m \in TamperMasks :
        SameFailure(c, Revert([encryptionKey |-> key], B64Encode(TamperByte(data, at, m))))

\* c failed as Revert of enc fails under every valid key other than key
FailsAsWrongKey(c, key, enc) ==
    \A k2 \in ValidKeys \ {key} : SameFailure(c, Revert([encryptionKey |-> k2], enc))

C13_WrongKeyLikeTamper ==
    /\ \A j \in RevertsOf("whole") :
          (calls[j].key # calls[calls[j].from.of].key /\ Len(calls[j].key) \in AesKeySizes)
              => FailsAsTampered(calls[j], calls[calls[j].from.of].key,
                                 Decoded(calls[j].input))
    /\ \A j \in RevertsOf("tamper") :
          calls[j].key = calls[calls[j].from.of].key
              => FailsAsWrongKey(calls[j], calls[j].key,
                                 calls[calls[j].from.of].res[1].EncryptedValue)

\* a Revert under a valid key of another length than the key of the encryption
C13_Witness ==
    \E j \in RevertsOf("whole") :
        /\ Len(calls[j].key) \in AesKeySizes
        /\ Len(calls[calls[j].from.of].key) \in AesKeySizes
        /\ Len(calls[j].key) # Len(calls[calls[j].from.of].key)
        /\ calls[j].err # <<>>
        /\ ErrorString(calls[j].err)
               = "decryption failed: cipher: message authentication failed"

(***************************************************************************)
(* C15.  Revert makes its checks in one order (the text is decoded, the    *)
(* cipher is set up from the key, the length is checked, the data is       *)
(* authenticated) and reports the first that fails.  On a service whose    *)
(* key has an invalid length, a text that decodes fails with the           *)
(* cipher-setup error, which is none of the decoding failure, the          *)
(* truncated ciphertext and the authentication failure, whatever its       *)
(* length and content, and neither the length check nor gcm.Open is        *)
(* reached; a text that does not decode fails with the decoding failure    *)
(* before the key is looked at.                                            *)
(***************************************************************************)
\* the text decodes: padded standard base64 once CR and LF are left out
Decodes(t) == IsStdBase64(WithoutNewlines(t))

C15_CheckOrder ==
    \A j \in RevertCalls :
        /\ ~Decodes(calls[j].input)
              => /\ IsDecodingFailure(calls[j].err)
                 /\ calls[j].trace = <<"base64.DecodeString">>
        /\ (Decodes(calls[j].input) /\ Len(calls[j].key) \notin AesKeySizes)
              => /\ calls[j].err = Wrap("decryption failed",
                                      IntError("crypto/aes: invalid key size",
                                               Len(calls[j].key)))
                 /\ calls[j].out = <<>>
                 /\ ~IsDecodingFailure(calls[j].err)
                 /\ ~IsTruncatedCiphertext(calls[j].err)
                 /\ ~IsAuthenticationFailure(calls[j].err)
                 /\ calls[j].trace = <<"base64.DecodeString", "aes.NewCipher">>
        /\ (Decodes(calls[j].input) /\ Len(calls[j].key) \in AesKeySizes)
              => /\ ~IsDecodingFailure(calls[j].err)
                 /\ IsTruncatedCiphertext(calls[j].err)
                        <=> ~Called(calls[j].trace, "gcm.Open")

\* a whole EncryptedValue given to a service whose key has an invalid length
C15_Witness ==
    \E j \in RevertsOf("whole") :
        /\ Len(calls[j].key) \notin AesKeySizes
        /\ Len(Decoded(calls[j].input)) > NonceSize + TagSize
        /\ IsCipherSetupError(Tail(calls[j].err))
        /\ ErrorString(calls[j].err) = "decryption failed: crypto/aes: invalid key size 5"

(***************************************************************************)
(* C16.  The service holds the caller's key buffer, not a copy of it.      *)
(* When the caller writes a byte of the buffer after NewService, the       *)
(* service holds the changed key: Revert of every EncryptedValue made      *)
(* under the contents before the write now fails with the authentication   *)
(* failure.  Every Pseudonymize and Revert returns what the contents of    *)
(* the buffer at the time of the call give, and leaves the buffer as it    *)
(* was.                                                                    *)
(***************************************************************************)
\* the call returned what the key gives for its arguments and draws
ReturnedUnder(c, key) ==
    IF c.op = "Revert"
    THEN ReturnedAsRevert([res |-> <<>>, out |-> c.out, err |-> c.err],
                          Revert([encryptionKey |-> key], c.input))
    ELSE ReturnedAsPseudonymize([res |-> c.res, out |-> <<>>, err |-> c.err],
                                Pseudonymize([encryptionKey |-> key], c.value, c.purpose,
                                             c.system, c.rnd, c.id, c.now))

FailsAuthentication(r) == IsAuthenticationFailure(r.err) /\ r.out = <<>>

C16_Step ==
    /\ DoWriteKey
          => \A i \in Artifacts :
                 calls[i].key = keyBuf
                     => FailsAuthentication(Revert(Service', calls[i].res[1].EncryptedValue))
    /\ calls' # calls
          => /\ keyBuf' = keyBuf
             /\ ReturnedUnder(calls'[Len(calls')], keyBuf)

C16_KeyByReference == [][C16_Step]_vars

\* an EncryptedValue made on a 32-byte key, the first byte of the buffer
\* written, and the Revert on the same service failing
C16_Witness ==
    \E j \in RevertsOf("whole") :
        /\ Len(calls[j].key) = 32
        /\ calls[calls[j].from.of].key = Zeros(32)
        /\ calls[j].key = [Zeros(32) EXCEPT ![1] = 1]
        /\ keyBuf = calls[j].key
        /\ IsAuthenticationFailure(calls[j].err)

==========================================================================
